---- MODULE Spec2Model ----
(***************************************************************************)
(* Model of vraudio::SceneManager                                          *)
(* (resonance_audio/geometrical_acoustics/scene_manager.cc).               *)
(*                                                                         *)
(* The manager owns one Embree device, a world scene holding triangle      *)
(* meshes, a listener scene holding one user geometry (a sphere) per       *)
(* listener, the list of reflection kernels with the triangle -> kernel    *)
(* map, and the sphere id -> listener index map.  Embree objects are       *)
(* modelled by what the calls made in the source do to them: scenes are    *)
(* created, have geometries attached (ids 0, 1, 2, ... per scene, in       *)
(* attach order), are committed and are released.  Mutating calls are      *)
(* serialized (one call at a time); BuildScene and BuildListenerScene are  *)
(* split at the points where the scene is between "modified" and           *)
(* "committed", every other call is one step.                              *)
(***************************************************************************)
EXTENDS Integers, Sequences, FiniteSets, TLC

\* ------------------------------------------------------------------ bounds
MaxOps == 3          \* calls issued on one SceneManager
MaxTriangles == 2    \* triangles in one triangle buffer
MaxListeners == 2    \* listeners in one listener list

\* ------------------------------------------------------------------ inputs
Kernels == {"K1", "K2"}

\* The vertex buffer of a triangle fan around vertex 0.
VertexBuffers ==
  { [i \in 1..(MaxTriangles + 2) |-> [x |-> i, y |-> i % 2, z |-> 0]] }

\* Triangle buffers: the first n triangles of a fan, in either winding.
Fan(n) == [i \in 1..n |-> [v0 |-> 0, v1 |-> i, v2 |-> i + 1]]

FanReversed(n) == [i \in 1..n |-> [v0 |-> 0, v1 |-> i + 1, v2 |-> i]]

TriangleBuffers ==
  {Fan(n) : n \in 0..MaxTriangles} \cup {FanReversed(n) : n \in 0..MaxTriangles}

\* Triangle indices a caller may pass, in and out of range of the meshes.
TriangleIndices == {0, 1, 2}

TriangleIndexSets == SUBSET TriangleIndices

\* AcousticListener: only its position is read.  Listener lists: n listeners
\* in a row along x, 5 apart, in either order.
Row(n) == [i \in 1..n |-> [position |-> <<5 * (i - 1), 0, 0>>]]

RowReversed(n) == [i \in 1..n |-> [position |-> <<5 * (n - i), 0, 0>>]]

ListenerLists ==
  {Row(n) : n \in 0..MaxListeners} \cup {RowReversed(n) : n \in 0..MaxListeners}

Radii == {1}

\* RTC_INVALID_GEOMETRY_ID, the hit id of a ray that has hit nothing.
InvalidGeometryId == -1

\* Rays a query may present: from (2,0,0) along +x and along -x.
NewRay(org, dir) ==
  [org |-> org, dir |-> dir, tnear |-> 0, tfar |-> 100,
   geomID |-> InvalidGeometryId, primID |-> InvalidGeometryId, Ng |-> <<0, 0, 0>>]

Rays == {NewRay(<<2, 0, 0>>, <<1, 0, 0>>), NewRay(<<2, 0, 0>>, <<-1, 0, 0>>)}

\* Values of the validity slot: -1 marks a valid ray, 0 an invalid one.
ValidMasks == {-1, 0}

\* std::unordered_set iterates in an unspecified order: every enumeration of
\* the set without repetition is a possible iteration order.
IterationOrders(S) ==
  {o \in [1..Cardinality(S) -> S] : \A i, j \in 1..Cardinality(S) : o[i] = o[j] => i = j}

\* ------------------------------------------------------------------- state
VARIABLES
  pc,                            \* position of the (single) caller
  last_op,                       \* the call most recently entered
  ret,                           \* value returned by the last Associate call
  ops,                           \* number of calls issued
  device_,                       \* RTCDevice: "live" or "released"
  rtc_scenes,                    \* Embree scene objects, by handle
  scene_,                        \* handle of the world scene
  listener_scene_,               \* handle of the listener scene
  num_vertices_,
  num_triangles_,
  is_scene_committed_,
  is_listener_scene_committed_,
  reflections_,                  \* std::vector<ReflectionKernel>
  triangle_to_reflection_map_,   \* unordered_map<unsigned, size_t>
  sphere_to_listener_map_,       \* unordered_map<unsigned, size_t>
  sphere_heap,                   \* Sphere records obtained from AllignedMalloc
  vertex_buffer,                 \* arguments of the current/last BuildScene
  triangle_buffer,
  listeners,                     \* arguments of the current/last BuildListenerScene
  listener_sphere_radius,
  listener_index,                \* loop variable of BuildListenerScene
  sphere_ids,                    \* sphere_id assigned per listener, current/last build
  prev_sphere_ids,               \* the same for the build before it
  last_associate,                \* arguments of the last Associate call and the map it found
  listener_bounds,               \* boxes written by the bounds callback at the last commit
  rayhit,                        \* RTCRayHit record as the last intersect callback left it
  sphere_intersection_calls,     \* SphereIntersection calls made by the last intersect callback
  adapter_accesses               \* indices at which the callbacks have read the user data

vars == << pc, last_op, ret, ops, device_, rtc_scenes, scene_, listener_scene_,
           num_vertices_, num_triangles_, is_scene_committed_,
           is_listener_scene_committed_, reflections_,
           triangle_to_reflection_map_, sphere_to_listener_map_, sphere_heap,
           vertex_buffer, triangle_buffer, listeners, listener_sphere_radius,
           listener_index, sphere_ids, prev_sphere_ids, last_associate,
           listener_bounds, rayhit, sphere_intersection_calls,
           adapter_accesses >>

\* --------------------------------------------------------------- utilities
Range(f) == {f[i] : i \in DOMAIN f}

EmptyMap == [k \in {} |-> 0]

\* What a lookup yields for a triangle without an associated kernel.
NoKernel == "none"

\* Insertion that keeps the entry of a key already present.
MapPut_InsertIfAbsent(map, key, value) ==
  [k \in (DOMAIN map) \cup {key} |->
     IF k \in DOMAIN map THEN map[k] ELSE value]

\* map[key] = value of std::unordered_map: insert or overwrite.
MapPut(map, key, value) ==
  [k \in (DOMAIN map) \cup {key} |-> IF k = key THEN value ELSE map[k]]

\* ------------------------------------------------------------ Embree model
\* rtcNewScene: a live, empty scene that has not been committed.
rtcNewScene == [live |-> TRUE, committed |-> FALSE, geometries |-> <<>>]

\* rtcAttachGeometry: the geometry gets the next id of that scene (ids count
\* from 0 in attach order) and the scene has to be committed again.
AttachedId(scene) == Len(scene.geometries)

rtcAttachGeometry(scene, geom) ==
  [scene EXCEPT !.geometries = Append(@, geom), !.committed = FALSE]

\* rtcCommitScene
rtcCommitScene(scene) == [scene EXCEPT !.committed = TRUE]

\* rtcReleaseScene on the only reference: the scene and the geometries it
\* holds are destroyed.  The user-data pointer of a geometry is an opaque
\* void* to Embree; the memory it points to is not touched.
rtcReleaseScene(scene) ==
  [live |-> FALSE, committed |-> FALSE, geometries |-> <<>>]

\* ------------------------------------------------------------- constructor
\* Member initializers of the class declaration: counts 0, flags false,
\* containers empty.
HeaderDefaults ==
  /\ num_vertices_ = 0
  /\ num_triangles_ = 0
  /\ is_scene_committed_ = FALSE
  /\ is_listener_scene_committed_ = FALSE
  /\ reflections_ = <<>>
  /\ triangle_to_reflection_map_ = EmptyMap
  /\ sphere_to_listener_map_ = EmptyMap

\* SceneManager::SceneManager()
Init ==
  /\ HeaderDefaults
  /\ device_ = "live"
  /\ rtc_scenes = << rtcNewScene, rtcNewScene >>
  /\ scene_ = 1
  /\ listener_scene_ = 2
  /\ sphere_heap = <<>>
  /\ pc = "idle"
  /\ last_op = "SceneManager"
  /\ ret = FALSE
  /\ ops = 0
  /\ vertex_buffer = <<>>
  /\ triangle_buffer = <<>>
  /\ listeners = <<>>
  /\ listener_sphere_radius = 0
  /\ listener_index = 0
  /\ sphere_ids = <<>>
  /\ prev_sphere_ids = <<>>
  /\ last_associate = [reflection |-> NoKernel, triangle_indices |-> {},
                       map_before |-> EmptyMap]
  /\ listener_bounds = <<>>
  /\ rayhit = NewRay(<<0, 0, 0>>, <<0, 0, 0>>)
  /\ sphere_intersection_calls = <<>>
  /\ adapter_accesses = {}

\* ---------------------------------------------------------------- BuildScene
\* embree_vertex_array after the copy loop (the padding float is never read).
EmbreeVertexArray(vertices) ==
  [i \in 0..(Len(vertices) - 1) |->
     [x |-> vertices[i + 1].x, y |-> vertices[i + 1].y, z |-> vertices[i + 1].z]]

\* The copy loop without the re-ordering: {v0, v1, v2} stored as given.
EmbreeIndexArray_NoSwap(triangles) ==
  [j \in 0..(3 * Len(triangles) - 1) |->
     LET t == triangles[(j \div 3) + 1]
     IN  CASE j % 3 = 0 -> t.v0
           [] j % 3 = 1 -> t.v1
           [] OTHER     -> t.v2]

\* embree_index_array after the copy loop: {v0, v1, v2} -> {v0, v2, v1}.
EmbreeIndexArray(triangles) ==
  [j \in 0..(3 * Len(triangles) - 1) |->
     LET t == triangles[(j \div 3) + 1]
     IN  CASE j % 3 = 0 -> t.v0
           [] j % 3 = 1 -> t.v2
           [] OTHER     -> t.v1]

\* Lines 86-116: record the counts, attach a new triangle geometry to scene_
\* and fill its vertex and index buffers.
BuildScene_Fill(vertices, triangles) ==
  /\ pc = "idle"
  /\ ops < MaxOps
  /\ ops' = ops + 1
  /\ last_op' = "BuildScene"
  /\ vertex_buffer' = vertices
  /\ triangle_buffer' = triangles
  /\ num_vertices_' = Len(vertices)
  /\ num_triangles_' = Len(triangles)
  /\ rtc_scenes' = [rtc_scenes EXCEPT ![scene_] =
       rtcAttachGeometry(@, [type |-> "TRIANGLE",
                             vertex |-> EmbreeVertexArray(vertices),
                             index |-> EmbreeIndexArray(triangles)])]
  /\ pc' = "BuildScene_commit"
  /\ UNCHANGED << ret, device_, scene_, listener_scene_, is_scene_committed_,
                  is_listener_scene_committed_, reflections_,
                  triangle_to_reflection_map_, sphere_to_listener_map_,
                  sphere_heap, listeners, listener_sphere_radius,
                  listener_index, sphere_ids, prev_sphere_ids,
                  last_associate,
                  listener_bounds, rayhit, sphere_intersection_calls,
                  adapter_accesses >>

\* Lines 118-119.
BuildScene_Commit ==
  /\ pc = "BuildScene_commit"
  /\ rtc_scenes' = [rtc_scenes EXCEPT ![scene_] = rtcCommitScene(@)]
  /\ is_scene_committed_' = TRUE
  /\ pc' = "idle"
  /\ UNCHANGED << last_op, ret, ops, device_, scene_, listener_scene_,
                  num_vertices_, num_triangles_, is_listener_scene_committed_,
                  reflections_, triangle_to_reflection_map_,
                  sphere_to_listener_map_, sphere_heap, vertex_buffer,
                  triangle_buffer, listeners, listener_sphere_radius,
                  listener_index, sphere_ids, prev_sphere_ids,
                  last_associate,
                  listener_bounds, rayhit, sphere_intersection_calls,
                  adapter_accesses >>

\* ------------------------------------- AssociateReflectionKernelToTriangles
\* The loop writing the list size taken after the push_back instead of the
\* position of the appended kernel.
RECURSIVE AssociateLoop_SizeAfterPush(_, _, _, _)
AssociateLoop_SizeAfterPush(map, order, reflection_index, num_triangles) ==
  IF order = <<>> THEN [map |-> map, ret |-> TRUE]
  ELSE IF Head(order) >= num_triangles THEN [map |-> map, ret |-> FALSE]
  ELSE AssociateLoop_SizeAfterPush(
         MapPut(map, Head(order), reflection_index + 1),
         Tail(order), reflection_index, num_triangles)

\* The for loop of lines 127-132 over the indices in iteration order: the
\* map as the loop leaves it and the value returned.
RECURSIVE AssociateLoop(_, _, _, _)
AssociateLoop(map, order, reflection_index, num_triangles) ==
  IF order = <<>> THEN [map |-> map, ret |-> TRUE]
  ELSE IF Head(order) >= num_triangles THEN [map |-> map, ret |-> FALSE]
  ELSE AssociateLoop(MapPut(map, Head(order), reflection_index),
                     Tail(order), reflection_index, num_triangles)

\* The call treated as a change of the scene: the committed flag is reset.
AssociateReflectionKernelToTriangles_Uncommit(reflection, triangle_indices, order) ==
  /\ pc = "idle"
  /\ ops < MaxOps
  /\ order \in IterationOrders(triangle_indices)
  /\ ops' = ops + 1
  /\ last_op' = "AssociateReflectionKernelToTriangles"
  /\ LET reflection_index == Len(reflections_)
         out == AssociateLoop(triangle_to_reflection_map_, order,
                              reflection_index, num_triangles_)
     IN  /\ reflections_' = Append(reflections_, reflection)
         /\ triangle_to_reflection_map_' = out.map
         /\ ret' = out.ret
  /\ last_associate' = [reflection |-> reflection,
                        triangle_indices |-> triangle_indices,
                        map_before |-> triangle_to_reflection_map_]
  /\ is_scene_committed_' = FALSE
  /\ UNCHANGED << pc, device_, rtc_scenes, scene_, listener_scene_,
                  num_vertices_, num_triangles_,
                  is_listener_scene_committed_, sphere_to_listener_map_,
                  sphere_heap, vertex_buffer, triangle_buffer, listeners,
                  listener_sphere_radius, listener_index, sphere_ids,
                  prev_sphere_ids,
                  listener_bounds, rayhit, sphere_intersection_calls,
                  adapter_accesses >>

\* Lines 122-134.
AssociateReflectionKernelToTriangles(reflection, triangle_indices, order) ==
  /\ pc = "idle"
  /\ ops < MaxOps
  /\ order \in IterationOrders(triangle_indices)
  /\ ops' = ops + 1
  /\ last_op' = "AssociateReflectionKernelToTriangles"
  /\ LET reflection_index == Len(reflections_)
         out == AssociateLoop(triangle_to_reflection_map_, order,
                              reflection_index, num_triangles_)
     IN  /\ reflections_' = Append(reflections_, reflection)
         /\ triangle_to_reflection_map_' = out.map
         /\ ret' = out.ret
  /\ last_associate' = [reflection |-> reflection,
                        triangle_indices |-> triangle_indices,
                        map_before |-> triangle_to_reflection_map_]
  /\ UNCHANGED << pc, device_, rtc_scenes, scene_, listener_scene_,
                  num_vertices_, num_triangles_, is_scene_committed_,
                  is_listener_scene_committed_, sphere_to_listener_map_,
                  sphere_heap, vertex_buffer, triangle_buffer, listeners,
                  listener_sphere_radius, listener_index, sphere_ids,
                  prev_sphere_ids,
                  listener_bounds, rayhit, sphere_intersection_calls,
                  adapter_accesses >>

\* ------------------------------------------------------ sphere primitive math
Dot(a, b) == a[1] * b[1] + a[2] * b[2] + a[3] * b[3]

ISqrt(n) == CHOOSE k \in 0..n : k * k <= n /\ (k + 1) * (k + 1) > n

\* SphereBounds: the box center - radius .. center + radius on every axis.
SphereBounds(sphere) ==
  [lower |-> [a \in 1..3 |-> sphere.center[a] - sphere.radius],
   upper |-> [a \in 1..3 |-> sphere.center[a] + sphere.radius]]

\* SphereIntersection: analytic ray-sphere test.  On a hit strictly inside
\* (tnear, tfar) the ray gets the hit distance, the sphere's geometry id and
\* the normal; on a miss the ray is left as it was.
SphereIntersection(sphere, ray) ==
  LET oc    == [a \in 1..3 |-> sphere.center[a] - ray.org[a]]
      b     == Dot(oc, ray.dir)
      perp2 == Dot(oc, oc) - b * b
      r2    == sphere.radius * sphere.radius
      h     == ISqrt(r2 - perp2)
      InRange(t) == ray.tnear < t /\ t < ray.tfar
      Hit(t) == [ray EXCEPT !.tfar = t,
                            !.geomID = sphere.geometry_id,
                            !.primID = 0,
                            !.Ng = [a \in 1..3 |->
                                      ray.org[a] + t * ray.dir[a] - sphere.center[a]]]
  IN  IF perp2 > r2 THEN ray
      ELSE IF InRange(b - h) THEN Hit(b - h)
      ELSE IF InRange(b + h) THEN Hit(b + h)
      ELSE ray

\* ------------------------------------------------------ adapter callbacks
\* What a read of spheres[index] can yield, spheres being the user-data
\* pointer of a geometry.  Every allocation holds one Sphere: index 0 is that
\* Sphere, any other index is outside the allocation and the read may yield
\* any bytes.
SpheresAt(user_data, index) ==
  IF index = 0 THEN {sphere_heap[user_data]}
  ELSE Range(sphere_heap)
         \cup {[center |-> <<0, 0, 0>>, radius |-> 0, geometry_id |-> InvalidGeometryId]}

\* EmbreeSphereBoundsFunction (lines 30-39): sphere is the value read at
\* spheres[args->primID].
EmbreeSphereBoundsFunction(sphere) == SphereBounds(sphere)

\* The adapter running the intersection whatever the validity slot holds.
EmbreeSphereIntersectFunction_IgnoreMask(valid, ray, N, sphere) ==
  IF N # 1
  THEN [rayhit |-> ray, calls |-> <<>>, read |-> FALSE, aborted |-> TRUE]
  ELSE [rayhit |-> SphereIntersection(sphere, ray),
        calls |-> << [sphere |-> sphere, ray |-> ray] >>,
        read |-> TRUE, aborted |-> FALSE]

\* EmbreeSphereIntersectFunction (lines 45-62): sphere is the value a read
\* of spheres[args->primID] yields.  The result is the ray/hit record as the
\* adapter leaves it, the SphereIntersection calls it made, whether it read
\* the user data and whether assert(N_in == 1) stopped the program.
EmbreeSphereIntersectFunction(valid, ray, N, sphere) ==
  IF N # 1
  THEN [rayhit |-> ray, calls |-> <<>>, read |-> FALSE, aborted |-> TRUE]
  ELSE IF valid # -1
  THEN [rayhit |-> ray, calls |-> <<>>, read |-> FALSE, aborted |-> FALSE]
  ELSE [rayhit |-> SphereIntersection(sphere, ray),
        calls |-> << [sphere |-> sphere, ray |-> ray] >>,
        read |-> TRUE, aborted |-> FALSE]

\* rtcCommitScene on a scene of user geometries calls the bounds function
\* once per primitive (primID 0 .. primitive count - 1) of every geometry.
PrimitiveBounds(geom, primID) ==
  {EmbreeSphereBoundsFunction(sphere) : sphere \in SpheresAt(geom.user_data, primID)}

GeometryBounds(geom) ==
  LET prims == 0..(geom.primitive_count - 1)
  IN  {b \in [prims -> UNION {PrimitiveBounds(geom, q) : q \in prims}] :
         \A q \in prims : b[q] \in PrimitiveBounds(geom, q)}

SceneBounds(geometries) ==
  LET ids == 1..Len(geometries)
  IN  {b \in [ids -> UNION {GeometryBounds(geometries[i]) : i \in ids}] :
         \A i \in ids : b[i] \in GeometryBounds(geometries[i])}

PrimitiveIds(geometries) ==
  UNION {0..(geometries[i].primitive_count - 1) : i \in 1..Len(geometries)}

\* -------------------------------------------------------- BuildListenerScene
\* The old scene released and a new one created, the member still holding
\* the released handle.
BuildListenerScene_NewScene_KeepHandle(listener_list, radius) ==
  /\ pc = "idle"
  /\ ops < MaxOps
  /\ ops' = ops + 1
  /\ last_op' = "BuildListenerScene"
  /\ listeners' = listener_list
  /\ listener_sphere_radius' = radius
  /\ rtc_scenes' = Append([rtc_scenes EXCEPT ![listener_scene_] = rtcReleaseScene(@)],
                          rtcNewScene)
  /\ listener_scene_' = listener_scene_
  /\ listener_index' = 0
  /\ prev_sphere_ids' = sphere_ids
  /\ sphere_ids' = <<>>
  /\ listener_bounds' = <<>>
  /\ pc' = "BuildListenerScene_loop"
  /\ UNCHANGED << ret, device_, scene_, num_vertices_, num_triangles_,
                  is_scene_committed_, is_listener_scene_committed_,
                  reflections_, triangle_to_reflection_map_,
                  sphere_to_listener_map_, sphere_heap, vertex_buffer,
                  triangle_buffer,
                  last_associate,
                  rayhit, sphere_intersection_calls, adapter_accesses >>

\* Lines 139-140: release the old listener scene, create a new one.
BuildListenerScene_NewScene(listener_list, radius) ==
  /\ pc = "idle"
  /\ ops < MaxOps
  /\ ops' = ops + 1
  /\ last_op' = "BuildListenerScene"
  /\ listeners' = listener_list
  /\ listener_sphere_radius' = radius
  /\ rtc_scenes' = Append([rtc_scenes EXCEPT ![listener_scene_] = rtcReleaseScene(@)],
                          rtcNewScene)
  /\ listener_scene_' = Len(rtc_scenes) + 1
  /\ listener_index' = 0
  /\ prev_sphere_ids' = sphere_ids
  /\ sphere_ids' = <<>>
  /\ listener_bounds' = <<>>
  /\ pc' = "BuildListenerScene_loop"
  /\ UNCHANGED << ret, device_, scene_, num_vertices_, num_triangles_,
                  is_scene_committed_, is_listener_scene_committed_,
                  reflections_, triangle_to_reflection_map_,
                  sphere_to_listener_map_, sphere_heap, vertex_buffer,
                  triangle_buffer,
                  last_associate,
                  rayhit, sphere_intersection_calls, adapter_accesses >>

\* Lines 158-162: the fields written into the freshly allocated Sphere.
SphereRecord(listener, radius, sphere_id) ==
  [center |-> listener.position, radius |-> radius, geometry_id |-> sphere_id]

\* One user primitive per geometry, however many listeners there are.
UserGeometry_PrimitivePerListener(sphere) ==
  [type |-> "USER",
   primitive_count |-> Len(listeners),
   user_data |-> sphere,
   bounds |-> "EmbreeSphereBoundsFunction",
   intersect |-> "EmbreeSphereIntersectFunction"]

\* Lines 149-152 and 165-167: the user geometry as configured for a sphere.
UserGeometry(sphere) ==
  [type |-> "USER",
   primitive_count |-> 1,
   user_data |-> sphere,
   bounds |-> "EmbreeSphereBoundsFunction",
   intersect |-> "EmbreeSphereIntersectFunction"]

\* Lines 147-171: one iteration of the loop over the listeners.
BuildListenerScene_Sphere ==
  /\ pc = "BuildListenerScene_loop"
  /\ listener_index < Len(listeners)
  /\ LET listener == listeners[listener_index + 1]
         sphere_id == AttachedId(rtc_scenes[listener_scene_])
         sphere == Len(sphere_heap) + 1     \* address returned by AllignedMalloc
     IN  /\ sphere_heap' = Append(sphere_heap,
              SphereRecord(listener, listener_sphere_radius, sphere_id))
         /\ rtc_scenes' = [rtc_scenes EXCEPT ![listener_scene_] =
              rtcAttachGeometry(@, UserGeometry(sphere))]
         /\ sphere_to_listener_map_' =
              MapPut(sphere_to_listener_map_, sphere_id, listener_index)
         /\ sphere_ids' = Append(sphere_ids, sphere_id)
  /\ listener_index' = listener_index + 1
  /\ UNCHANGED << pc, last_op, ret, ops, device_, scene_, listener_scene_,
                  num_vertices_, num_triangles_, is_scene_committed_,
                  is_listener_scene_committed_, reflections_,
                  triangle_to_reflection_map_, vertex_buffer, triangle_buffer,
                  listeners, listener_sphere_radius, prev_sphere_ids,
                  last_associate,
                  listener_bounds, rayhit, sphere_intersection_calls,
                  adapter_accesses >>

\* The commit step setting the flag of the world scene as well.
BuildListenerScene_Commit_BothFlags ==
  /\ pc = "BuildListenerScene_loop"
  /\ listener_index >= Len(listeners)
  /\ rtc_scenes' = [rtc_scenes EXCEPT ![listener_scene_] = rtcCommitScene(@)]
  /\ listener_bounds' \in SceneBounds(rtc_scenes[listener_scene_].geometries)
  /\ adapter_accesses' =
       adapter_accesses \cup PrimitiveIds(rtc_scenes[listener_scene_].geometries)
  /\ is_listener_scene_committed_' = TRUE
  /\ is_scene_committed_' = TRUE
  /\ pc' = "idle"
  /\ UNCHANGED << last_op, ret, ops, device_, scene_, listener_scene_,
                  num_vertices_, num_triangles_,
                  reflections_, triangle_to_reflection_map_,
                  sphere_to_listener_map_, sphere_heap, vertex_buffer,
                  triangle_buffer, listeners, listener_sphere_radius,
                  listener_index, sphere_ids, prev_sphere_ids,
                  last_associate,
                  rayhit, sphere_intersection_calls >>

\* Lines 174-175.
BuildListenerScene_Commit ==
  /\ pc = "BuildListenerScene_loop"
  /\ listener_index >= Len(listeners)
  /\ rtc_scenes' = [rtc_scenes EXCEPT ![listener_scene_] = rtcCommitScene(@)]
  /\ listener_bounds' \in SceneBounds(rtc_scenes[listener_scene_].geometries)
  /\ adapter_accesses' =
       adapter_accesses \cup PrimitiveIds(rtc_scenes[listener_scene_].geometries)
  /\ is_listener_scene_committed_' = TRUE
  /\ pc' = "idle"
  /\ UNCHANGED << last_op, ret, ops, device_, scene_, listener_scene_,
                  num_vertices_, num_triangles_, is_scene_committed_,
                  reflections_, triangle_to_reflection_map_,
                  sphere_to_listener_map_, sphere_heap, vertex_buffer,
                  triangle_buffer, listeners, listener_sphere_radius,
                  listener_index, sphere_ids, prev_sphere_ids,
                  last_associate,
                  rayhit, sphere_intersection_calls >>

\* ------------------------------------------------------------- destructor
\* SceneManager::~SceneManager()
Destroy ==
  /\ pc = "idle"
  /\ ops < MaxOps
  /\ ops' = ops + 1
  /\ last_op' = "~SceneManager"
  /\ rtc_scenes' = [rtc_scenes EXCEPT ![scene_] = rtcReleaseScene(@),
                                      ![listener_scene_] = rtcReleaseScene(@)]
  /\ device_' = "released"
  /\ pc' = "destroyed"
  /\ UNCHANGED << ret, scene_, listener_scene_, num_vertices_, num_triangles_,
                  is_scene_committed_, is_listener_scene_committed_,
                  reflections_, triangle_to_reflection_map_,
                  sphere_to_listener_map_, sphere_heap, vertex_buffer,
                  triangle_buffer, listeners, listener_sphere_radius,
                  listener_index, sphere_ids, prev_sphere_ids,
                  last_associate,
                  listener_bounds, rayhit, sphere_intersection_calls,
                  adapter_accesses >>

\* ---------------------------------------------------------------- ray query
\* A ray query against the committed listener scene, issued between calls:
\* Embree invokes the intersect callback of a candidate geometry for one of
\* its primitives, with batch width N.
IntersectCallback(id, valid, ray, N) ==
  /\ pc = "idle"
  /\ ops < MaxOps
  /\ rtc_scenes[listener_scene_].committed
  /\ id \in 0..(Len(rtc_scenes[listener_scene_].geometries) - 1)
  /\ ops' = ops + 1
  /\ last_op' = "EmbreeSphereIntersectFunction"
  /\ LET geom == rtc_scenes[listener_scene_].geometries[id + 1]
     IN  \E primID \in 0..(geom.primitive_count - 1) :
           \E sphere \in SpheresAt(geom.user_data, primID) :
             LET out == EmbreeSphereIntersectFunction(valid, ray, N, sphere)
             IN  /\ rayhit' = out.rayhit
                 /\ sphere_intersection_calls' = out.calls
                 /\ adapter_accesses' =
                      IF out.read THEN adapter_accesses \cup {primID}
                      ELSE adapter_accesses
                 /\ pc' = IF out.aborted THEN "aborted" ELSE pc
  /\ UNCHANGED << ret, device_, rtc_scenes, scene_, listener_scene_,
                  num_vertices_, num_triangles_, is_scene_committed_,
                  is_listener_scene_committed_, reflections_,
                  triangle_to_reflection_map_, sphere_to_listener_map_,
                  sphere_heap, vertex_buffer, triangle_buffer, listeners,
                  listener_sphere_radius, listener_index, sphere_ids,
                  prev_sphere_ids, last_associate, listener_bounds >>

\* ------------------------------------------------------------ specification
BuildSceneCall == \E v \in VertexBuffers, t \in TriangleBuffers : BuildScene_Fill(v, t)

AssociateCall ==
  \E k \in Kernels, s \in TriangleIndexSets :
    \E o \in IterationOrders(s) : AssociateReflectionKernelToTriangles(k, s, o)

BuildListenerSceneCall ==
  \E l \in ListenerLists, r \in Radii : BuildListenerScene_NewScene(l, r)

\* The listener scene is traced one ray at a time: N = 1.
RayQuery ==
  \E id \in 0..(MaxListeners - 1), valid \in ValidMasks, ray \in Rays :
    IntersectCallback(id, valid, ray, 1)

Next ==
  \/ BuildSceneCall
  \/ BuildScene_Commit
  \/ AssociateCall
  \/ BuildListenerSceneCall
  \/ BuildListenerScene_Sphere
  \/ BuildListenerScene_Commit
  \/ RayQuery
  \/ Destroy

Spec == Init /\ [][Next]_vars

\* ---------------------------------------------------------------- accessors
NotFound == -1

\* Lookup of the kernel associated with a triangle: the map entry, then the
\* kernel at that position of the list.
ReflectionKernelForTriangle(i) ==
  IF i \in DOMAIN triangle_to_reflection_map_
       /\ triangle_to_reflection_map_[i] < Len(reflections_)
  THEN reflections_[triangle_to_reflection_map_[i] + 1]
  ELSE NoKernel

\* Lookup of the listener index recorded for a sphere's geometry id.
ListenerIndexForGeometry(id) ==
  IF id \in DOMAIN sphere_to_listener_map_
  THEN sphere_to_listener_map_[id]
  ELSE NotFound

\* ------------------------------------------------------- derived quantities
WorldScene == rtc_scenes[scene_]
ListenerScene == rtc_scenes[listener_scene_]

\* The mesh attached by the most recent BuildScene.
CurrentMesh == WorldScene.geometries[Len(WorldScene.geometries)]

\* Triangles of the current mesh; triangle indices (primitive ids) count
\* within one mesh.
NumTrianglesInWorldScene ==
  IF WorldScene.geometries = <<>> THEN 0
  ELSE Cardinality(DOMAIN CurrentMesh.index) \div 3

RECURSIVE PrimitiveCount(_)
PrimitiveCount(geometries) ==
  IF geometries = <<>> THEN 0
  ELSE Head(geometries).primitive_count + PrimitiveCount(Tail(geometries))

\* Sphere records that have been allocated and not freed.  No statement of
\* the file frees a Sphere, and Embree does not free user data.
AllocatedSpheres == DOMAIN sphere_heap

\* Sphere records that are the user data of a geometry of the listener scene.
SpheresOfListenerScene == {g.user_data : g \in Range(ListenerScene.geometries)}

AssociateStep == last_op' = "AssociateReflectionKernelToTriangles"

\* ------------------------------------------------------------------- claims

\* C1: an Associate call given an index set with some index >= the triangle
\* count returns failure and leaves the kernel list and the triangle-to-kernel
\* map exactly as they were before the call.
C1_FailedAssociateChangesNothing ==
  [][\A k \in Kernels, s \in TriangleIndexSets : \A o \in IterationOrders(s) :
       (AssociateReflectionKernelToTriangles(k, s, o)
          /\ \E i \in s : i >= num_triangles_)
       => /\ ret' = FALSE
          /\ reflections_' = reflections_
          /\ triangle_to_reflection_map_' = triangle_to_reflection_map_]_vars

\* C2: an Associate call given an index set (possibly empty) whose indices are
\* all below the recorded triangle count returns success, and right after it
\* the kernel looked up for every triangle of the set is the kernel passed.
C2_ValidAssociateSucceeds ==
  [][AssociateStep =>
     \A k \in Kernels, s \in TriangleIndexSets : \A o \in IterationOrders(s) :
       (AssociateReflectionKernelToTriangles(k, s, o)
          /\ \A i \in s : i < num_triangles_)
       => /\ ret' = TRUE
          /\ \A i \in s : ReflectionKernelForTriangle(i)' = k]_vars

C2_Witness ==
  /\ pc = "idle"
  /\ last_op = "AssociateReflectionKernelToTriangles"
  /\ ret = TRUE
  /\ Cardinality(DOMAIN triangle_to_reflection_map_) >= 2
  /\ \A i \in DOMAIN triangle_to_reflection_map_ :
       ReflectionKernelForTriangle(i) = "K2"

\* C3: after BuildScene(V, T) the index buffer of the committed mesh holds,
\* at position i, triangle i of T with first index kept and second and third
\* swapped.
C3_WindingOrder ==
  (pc = "idle" /\ is_scene_committed_) =>
     /\ WorldScene.committed
     /\ CurrentMesh.type = "TRIANGLE"
     /\ DOMAIN CurrentMesh.index = 0..(3 * Len(triangle_buffer) - 1)
     /\ \A i \in 0..(Len(triangle_buffer) - 1) :
          /\ CurrentMesh.index[3 * i + 0] = triangle_buffer[i + 1].v0
          /\ CurrentMesh.index[3 * i + 1] = triangle_buffer[i + 1].v2
          /\ CurrentMesh.index[3 * i + 2] = triangle_buffer[i + 1].v1

C3_Witness ==
  /\ pc = "idle"
  /\ is_scene_committed_
  /\ Len(triangle_buffer) = 2
  /\ triangle_buffer[1] # triangle_buffer[2]
  /\ CurrentMesh.index[1] = 2
  /\ CurrentMesh.index[2] = 1

\* C4: after BuildListenerScene(L, r) the listener scene holds exactly |L|
\* sphere primitives, one user geometry with one primitive per listener, and
\* the geometry id assigned to the sphere of listener k is looked up as k.
C4_ListenerSceneMatchesList ==
  (pc = "idle" /\ is_listener_scene_committed_) =>
     /\ ListenerScene.committed
     /\ Len(ListenerScene.geometries) = Len(listeners)
     /\ PrimitiveCount(ListenerScene.geometries) = Len(listeners)
     /\ \A g \in Range(ListenerScene.geometries) :
          g.type = "USER" /\ g.primitive_count = 1
     /\ Len(sphere_ids) = Len(listeners)
     /\ \A k \in 0..(Len(listeners) - 1) :
          /\ ListenerIndexForGeometry(sphere_ids[k + 1]) = k
          /\ LET g == ListenerScene.geometries[sphere_ids[k + 1] + 1]
             IN  /\ sphere_heap[g.user_data].geometry_id = sphere_ids[k + 1]
                 /\ sphere_heap[g.user_data].center = listeners[k + 1].position

C4_Witness ==
  /\ pc = "idle"
  /\ is_listener_scene_committed_
  /\ Len(listeners) = 2
  /\ listeners[1] # listeners[2]
  /\ ListenerIndexForGeometry(sphere_ids[2]) = 1

\* C5: after any sequence of BuildListenerScene calls the keys of the
\* sphere-to-listener map are exactly the geometry ids assigned during the
\* most recent build.
C5_KeysAreCurrentSphereIds ==
  pc = "idle" => DOMAIN sphere_to_listener_map_ = Range(sphere_ids)

\* C6: after a second BuildListenerScene, looking up any geometry id returned
\* by the build before it yields not found.
C6_OldIdsNotFound ==
  (pc = "idle" /\ last_op = "BuildListenerScene") =>
     \A id \in Range(prev_sphere_ids) : ListenerIndexForGeometry(id) = NotFound

\* C7: after any sequence of BuildScene and Associate calls every key of the
\* triangle-to-kernel map is below the number of triangles currently in the
\* world scene.
C7_KeysBelowTriangleCount ==
  pc = "idle" =>
     \A key \in DOMAIN triangle_to_reflection_map_ : key < NumTrianglesInWorldScene

\* C8: a scene's committed indicator is false before its first build, is true
\* when a build of it has returned, and at no point of the manager's life is
\* it true while the scene's current contents have not been committed.
C8_CommittedMeansCommitted ==
  /\ (ops = 0 => ~is_scene_committed_ /\ ~is_listener_scene_committed_)
  /\ (pc = "idle" /\ last_op = "BuildScene" => is_scene_committed_)
  /\ (pc = "idle" /\ last_op = "BuildListenerScene" => is_listener_scene_committed_)
  /\ (pc # "destroyed" /\ is_scene_committed_ => WorldScene.committed)
  /\ (pc # "destroyed" /\ is_listener_scene_committed_ => ListenerScene.committed)

\* C9: an Associate call, successful or not, leaves the world scene and its
\* committed state, the recorded vertex and triangle counts, the listener
\* scene and the sphere-to-listener map unchanged.
C9_AssociateFrame ==
  [][AssociateStep =>
       UNCHANGED << rtc_scenes, scene_, listener_scene_, device_,
                    is_scene_committed_, is_listener_scene_committed_,
                    num_vertices_, num_triangles_, sphere_to_listener_map_,
                    sphere_heap >>]_vars

C9_Witness ==
  /\ pc = "idle"
  /\ last_op = "AssociateReflectionKernelToTriangles"
  /\ is_scene_committed_
  /\ is_listener_scene_committed_
  /\ sphere_to_listener_map_ # EmptyMap
  /\ reflections_ # <<>>

\* C10: the Sphere records still allocated are exactly the |L| spheres of the
\* most recent BuildListenerScene, each the user data of one geometry of the
\* listener scene, and none remains allocated once the manager is destroyed.
C10_SpheresOwnedByListenerScene ==
  /\ pc = "idle" =>
       /\ AllocatedSpheres = SpheresOfListenerScene
       /\ Cardinality(AllocatedSpheres) = Len(listeners)
  /\ pc = "destroyed" => AllocatedSpheres = {}

\* Triangles present in a scene, over all the meshes attached to it.
RECURSIVE TrianglesPresent(_)
TrianglesPresent(geometries) ==
  IF geometries = <<>> THEN 0
  ELSE Cardinality(DOMAIN Head(geometries).index) \div 3
         + TrianglesPresent(Tail(geometries))

\* C11: after any sequence of BuildScene calls the world scene holds exactly
\* one triangle mesh, with the vertices and triangles of the most recent
\* call, and the recorded triangle count is the number of triangles present
\* in the world scene.
C11_OneMeshOfLastBuild ==
  (pc = "idle" /\ is_scene_committed_) =>
     /\ Len(WorldScene.geometries) = 1
     /\ CurrentMesh.type = "TRIANGLE"
     /\ DOMAIN CurrentMesh.vertex = 0..(Len(vertex_buffer) - 1)
     /\ \A i \in 0..(Len(vertex_buffer) - 1) :
          CurrentMesh.vertex[i] = vertex_buffer[i + 1]
     /\ DOMAIN CurrentMesh.index = 0..(3 * Len(triangle_buffer) - 1)
     /\ num_triangles_ = TrianglesPresent(WorldScene.geometries)

\* C12: BuildScene leaves the listener scene, its committed indicator and the
\* sphere-to-listener map unchanged; BuildListenerScene leaves the world
\* scene, its committed indicator, the recorded counts, the kernel list and
\* the triangle-to-kernel map unchanged.
C12_ScenesIndependent ==
  [][/\ (last_op' = "BuildScene") =>
          /\ listener_scene_' = listener_scene_
          /\ rtc_scenes'[listener_scene_] = rtc_scenes[listener_scene_]
          /\ is_listener_scene_committed_' = is_listener_scene_committed_
          /\ sphere_to_listener_map_' = sphere_to_listener_map_
     /\ (last_op' = "BuildListenerScene") =>
          /\ scene_' = scene_
          /\ rtc_scenes'[scene_] = rtc_scenes[scene_]
          /\ is_scene_committed_' = is_scene_committed_
          /\ num_vertices_' = num_vertices_
          /\ num_triangles_' = num_triangles_
          /\ reflections_' = reflections_
          /\ triangle_to_reflection_map_' = triangle_to_reflection_map_]_vars

C12_Witness ==
  /\ pc = "idle"
  /\ last_op = "BuildListenerScene"
  /\ is_scene_committed_
  /\ num_triangles_ = 2
  /\ Len(ListenerScene.geometries) = 2
  /\ triangle_to_reflection_map_ # EmptyMap

\* C14: between calls, from construction until destruction, the world-scene
\* and listener-scene handles refer to live scenes; BuildListenerScene has
\* put the handle of the new scene in place of the released one when it
\* returns, and the scenes it released are not the ones exposed.
C14_HandlesLive ==
  pc = "idle" =>
     /\ device_ = "live"
     /\ rtc_scenes[scene_].live
     /\ rtc_scenes[listener_scene_].live
     /\ scene_ # listener_scene_
     /\ \A h \in DOMAIN rtc_scenes :
          rtc_scenes[h].live => h \in {scene_, listener_scene_}

C14_Witness ==
  /\ pc = "idle"
  /\ last_op = "BuildListenerScene"
  /\ Len(rtc_scenes) = 4
  /\ listener_scene_ = 4
  /\ ~rtc_scenes[2].live
  /\ ~rtc_scenes[3].live
  /\ rtc_scenes[4].live

\* C16: every value stored in the triangle-to-kernel map is a position of
\* the reflection-kernel list (value < number of kernels).
C16_MapValuesInList ==
  \A key \in DOMAIN triangle_to_reflection_map_ :
     triangle_to_reflection_map_[key] < Len(reflections_)

C16_Witness ==
  /\ last_op = "AssociateReflectionKernelToTriangles"
  /\ ret = FALSE
  /\ Len(reflections_) = 2
  /\ \E key \in DOMAIN triangle_to_reflection_map_ :
       triangle_to_reflection_map_[key] = 1

\* C18: the reflection-kernel list only grows at its end: no step removes or
\* replaces a kernel, and the index an Associate call writes into the map is
\* the length the list had when the call started.
C18_KernelListAppendOnly ==
  [][/\ Len(reflections_') >= Len(reflections_)
     /\ \A i \in 1..Len(reflections_) : reflections_'[i] = reflections_[i]
     /\ AssociateStep =>
          /\ Len(reflections_') = Len(reflections_) + 1
          /\ \A key \in DOMAIN triangle_to_reflection_map_' :
               (key \notin DOMAIN triangle_to_reflection_map_
                  \/ triangle_to_reflection_map_'[key] # triangle_to_reflection_map_[key])
               => triangle_to_reflection_map_'[key] = Len(reflections_)]_vars

C18_Witness ==
  /\ last_op = "AssociateReflectionKernelToTriangles"
  /\ reflections_ = <<"K1", "K2">>
  /\ \E k1, k2 \in DOMAIN triangle_to_reflection_map_ :
       /\ triangle_to_reflection_map_[k1] = 0
       /\ triangle_to_reflection_map_[k2] = 1

\* The kernel a lookup yields through a given map and kernel list.
KernelIn(map, list, i) ==
  IF i \in DOMAIN map /\ map[i] < Len(list) THEN list[map[i] + 1] ELSE NoKernel

\* C15: after two successful Associate calls (K1, S1) then (K2, S2) every
\* triangle of S2 maps to K2, every triangle of S1 outside S2 still maps to
\* K1, and every triangle in neither set has the association it had before
\* the two calls.
C15_LastWriterWins ==
  [][(AssociateStep /\ ret' = TRUE) =>
     \A k2 \in Kernels, s2 \in TriangleIndexSets : \A o \in IterationOrders(s2) :
       (/\ last_op = "AssociateReflectionKernelToTriangles"
        /\ ret = TRUE
        /\ AssociateReflectionKernelToTriangles(k2, s2, o)
        /\ ret' = TRUE)
       => LET k1 == last_associate.reflection
              s1 == last_associate.triangle_indices
              before == last_associate.map_before
          IN  /\ \A i \in s2 : ReflectionKernelForTriangle(i)' = k2
              /\ \A i \in s1 \ s2 : ReflectionKernelForTriangle(i)' = k1
              /\ \A i \in TriangleIndices \ (s1 \cup s2) :
                   ReflectionKernelForTriangle(i)' = KernelIn(before, reflections_, i)]_vars

C15_Witness ==
  /\ last_op = "AssociateReflectionKernelToTriangles"
  /\ ret = TRUE
  /\ reflections_ = <<"K1", "K2">>
  /\ last_associate.triangle_indices = {0}
  /\ last_associate.map_before = [i \in {0, 1} |-> 0]
  /\ ReflectionKernelForTriangle(0) = "K2"
  /\ ReflectionKernelForTriangle(1) = "K1"

\* C13: the intersection adapter, called with batch width 1, returns with the
\* ray/hit record unchanged and without calling the sphere intersection when
\* the validity slot is not -1; when the slot is -1 it runs the sphere
\* intersection exactly once, with that ray, on the sphere that the primitive
\* index selects in the geometry's user data.
C13_AdapterHonorsMask ==
  [][(last_op' = "EmbreeSphereIntersectFunction") =>
     \A id \in 0..(MaxListeners - 1), valid \in ValidMasks, ray \in Rays :
       IntersectCallback(id, valid, ray, 1) =>
         LET geom == ListenerScene.geometries[id + 1]
         IN  /\ valid # -1 =>
                  /\ rayhit' = ray
                  /\ sphere_intersection_calls' = <<>>
             /\ valid = -1 =>
                  /\ Len(sphere_intersection_calls') = 1
                  /\ sphere_intersection_calls'[1].ray = ray
                  /\ \E primID \in 0..(geom.primitive_count - 1) :
                       sphere_intersection_calls'[1].sphere
                         \in SpheresAt(geom.user_data, primID)
                  /\ rayhit' =
                       SphereIntersection(sphere_intersection_calls'[1].sphere, ray)]_vars

C13_Witness ==
  /\ last_op = "EmbreeSphereIntersectFunction"
  /\ Len(sphere_intersection_calls) = 1
  /\ sphere_intersection_calls[1].sphere.center = <<5, 0, 0>>
  /\ rayhit.geomID = 1
  /\ rayhit.tfar = 2

\* C17: every geometry of the listener scene has exactly one user primitive
\* and one Sphere of its own as user data, the geometry_id stored in that
\* Sphere is the id under which the sphere's listener is recorded in the
\* sphere-to-listener map, and the bounds and intersection adapters read the
\* user data at index 0 only.
C17_OneSpherePerGeometry ==
  /\ adapter_accesses \subseteq {0}
  /\ \A id \in 0..(Len(ListenerScene.geometries) - 1) :
       LET geom == ListenerScene.geometries[id + 1]
           sphere == sphere_heap[geom.user_data]
       IN  /\ geom.type = "USER"
           /\ geom.primitive_count = 1
           /\ geom.user_data \in AllocatedSpheres
           /\ \A other \in 0..(Len(ListenerScene.geometries) - 1) :
                other # id =>
                  ListenerScene.geometries[other + 1].user_data # geom.user_data
           /\ sphere.geometry_id = id
           /\ ListenerIndexForGeometry(sphere.geometry_id) # NotFound
           /\ sphere_ids[ListenerIndexForGeometry(sphere.geometry_id) + 1] = id
           /\ listeners[ListenerIndexForGeometry(sphere.geometry_id) + 1].position
                = sphere.center

C17_Witness ==
  /\ pc = "idle"
  /\ last_op = "EmbreeSphereIntersectFunction"
  /\ Len(ListenerScene.geometries) = 2
  /\ DOMAIN listener_bounds = 1..2
  /\ sphere_intersection_calls # <<>>
  /\ adapter_accesses = {0}

====
